---- MODULE Spec2Model ----
(***************************************************************************)
(* A model of the code generator, the symbolic tensor variable, and the    *)
(* compile cache of paddle-symbolic-trace (sot).                           *)
(*                                                                         *)
(* Each component has its own specification over its own variables; the    *)
(* variables of the other components stay at their idle values.            *)
(*   SpecLnotab   assemble / modify_lnotab          (pycode_generator.py)  *)
(*   SpecStack    stacksize                         (pycode_generator.py)  *)
(*   SpecTensor   TensorVariable / DygraphTracerVariable      (basic.py)   *)
(*   SpecCache    CompileSIRCache, sequential and threaded (compile_cache) *)
(*   SpecResume   PyCodeGen.gen_resume_fn_at        (pycode_generator.py)  *)
(*   SpecLoop     gen_loop_body_between, gen_for_loop_fn_between, _gen_fn   *)
(*   SpecCodeGen  gen_load_const, gen_load_global, gen_load_object          *)
(* Python lists are 0-based; the sequences below are 1-based, so a Python  *)
(* index i is the index i + 1 here.                                        *)
(***************************************************************************)
EXTENDS Integers, Sequences, FiniteSets, TLC

VARIABLES
    \* ---- assemble / modify_lnotab
    asm_instructions,   \* assemble's argument: the starts_line of each instruction
    asm_firstlineno,    \* assemble's argument firstlineno
    asm_pc,             \* "idle" | "loop" | "returned" | "ValueError"
    asm_i,              \* index of the instruction the loop is at
    cur_line,           \* assemble's cur_line
    cur_bytecode,       \* assemble's cur_bytecode
    code_len,           \* len(code)
    lnotab,             \* assemble's lnotab list
    line_starts,        \* (byte offset, line) of the line-starting instructions seen
    ml_call,            \* the last direct call of modify_lnotab: args and result
    \* ---- stacksize
    ss_instructions,    \* stacksize's argument
    ss_pc,              \* "idle" | "loop" | "returned" | "AssertionError"
    ss_idx,             \* the for loop's idx (1-based)
    max_stack,          \* stacksize's max_stack
    min_stack,          \* stacksize's min_stack
    ss_result,          \* what stacksize returned
    \* ---- TensorVariable, DygraphTracerVariable, FunctionGraph
    frame,              \* f_locals of the traced call: name -> paddle.Tensor
    variables,          \* the variables constructed so far, in order
    var_name_count,     \* TensorVariable.var_name_generator's counter
    guarded,            \* the graph's globally guarded variables (indices)
    shape_out,          \* per variable: how its last read of .shape ended
    guard_out,          \* per variable: what its last make_stringify_guard gave
    graph_calls,        \* the calls the FunctionGraph was asked to record
    operations,         \* the finished operations on TensorVariables
    \* ---- CompileSIRCache
    str_hash,           \* hash() of this process, on the strings hashed so far
    cache,              \* Cache.cache: key -> index of the FallbackWrapper
    wrappers,           \* the FallbackWrappers value_fn has built, in order
    requests,           \* the finished calls: arguments, key and returned wrapper
    threads,            \* per thread: where it is in Cache.__call__
    calls,              \* the finished calls of FallbackWrappers
    \* ---- PyCodeGen.gen_resume_fn_at
    origin_code,        \* the code object of the frame, once it is called
    origin_frame,       \* the direct execution of origin_code
    break_point,        \* where tracing stopped: index, stack and locals there
    resume_fn,          \* what gen_resume_fn_at(index, stack_size) gave
    resume_frame,       \* the execution of the resume function
    \* ---- PyCodeGen.gen_loop_body_between / gen_for_loop_fn_between
    loop_origin,        \* the code object holding the for loop
    loop_fn,            \* the function built from the loop, and its inputs
    loop_args,          \* the values the function is called with, by name
    loop_frame,         \* the execution of that function
    \* ---- PyCodeGen.gen_load_const / gen_load_global / gen_load_object
    co_consts,          \* self._code_options["co_consts"]
    co_names,           \* self._code_options["co_names"]
    f_globals,          \* self._f_globals, shared with the frame
    objname_map,        \* self.objname_map: name -> index in co_names
    emitted             \* the loads appended to self._instructions

lnVars == <<asm_instructions, asm_firstlineno, asm_pc, asm_i, cur_line,
            cur_bytecode, code_len, lnotab, line_starts, ml_call>>
ssVars == <<ss_instructions, ss_pc, ss_idx, max_stack, min_stack, ss_result>>
tvVars == <<frame, variables, var_name_count, guarded, shape_out, guard_out,
            graph_calls, operations>>
ccVars == <<str_hash, cache, wrappers, requests, threads, calls>>
rsVars == <<origin_code, origin_frame, break_point, resume_fn, resume_frame>>
lpVars == <<loop_origin, loop_fn, loop_args, loop_frame>>
cgVars == <<co_consts, co_names, f_globals, objname_map, emitted>>
vars == <<lnVars, ssVars, tvVars, ccVars, rsVars, lpVars, cgVars>>
notLn == <<ssVars, tvVars, ccVars, rsVars, lpVars, cgVars>>
notSs == <<lnVars, tvVars, ccVars, rsVars, lpVars, cgVars>>
notTv == <<lnVars, ssVars, ccVars, rsVars, lpVars, cgVars>>
notCc == <<lnVars, ssVars, tvVars, rsVars, lpVars, cgVars>>
notRs == <<lnVars, ssVars, tvVars, ccVars, lpVars, cgVars>>
notLp == <<lnVars, ssVars, tvVars, ccVars, rsVars, cgVars>>
notCg == <<lnVars, ssVars, tvVars, ccVars, rsVars, lpVars>>

\* Python's None, and an optional value x, as sequences of length 0 and 1.
None == <<>>
Some(x) == <<x>>

RECURSIVE SumSeq(_)
SumSeq(s) == IF s = <<>> THEN 0 ELSE s[1] + SumSeq(Tail(s))

\* The elements of s at the odd (k = 1) or even (k = 0) positions.
EveryOther(s, k) == [j \in 1..(Len(s) \div 2) |-> s[2 * j - k]]

(***************************************************************************)
(* assemble and modify_lnotab                                              *)
(***************************************************************************)

\* Largest byte offset and line offset handed to modify_lnotab directly.
MaxByteOffset == 260
MaxLineOffset == 260
\* Longest instruction list handed to assemble, and the largest source line.
MaxAsmLen == 3
MaxLine == 300

AsmLines == {1, 2, 130, 257, MaxLine}

to_byte(num) == IF num < 0 THEN num + 256 ELSE num

\* The loop of lines 113-115: one (127, 0) entry per 127 bytes above 127.
RECURSIVE ByteChain(_)
ByteChain(byte_offset) ==
    IF byte_offset > 127
    THEN <<127, 0>> \o ByteChain(byte_offset - 127)
    ELSE <<>>

\* byte_offset as that loop leaves it.
RECURSIVE ByteRest(_)
ByteRest(byte_offset) ==
    IF byte_offset > 127 THEN ByteRest(byte_offset - 127) ELSE byte_offset

\* The loop of lines 124-126: it appends line_offset itself, then subtracts.
RECURSIVE LineChain(_)
LineChain(line_offset) ==
    IF line_offset > 0
    THEN <<0, line_offset>> \o LineChain(line_offset - 127)
    ELSE <<>>

\* The part of modify_lnotab below the byte_offset > 127 branch.
LnotabTail(byte_offset, line_offset) ==
    IF line_offset > 127
    THEN <<byte_offset, 127>> \o LineChain(line_offset - 127)
    ELSE <<to_byte(byte_offset), to_byte(line_offset)>>

modify_lnotab(byte_offset, line_offset) ==
    IF byte_offset > 127
    THEN ByteChain(byte_offset) \o LnotabTail(ByteRest(byte_offset), line_offset)
    ELSE LnotabTail(byte_offset, line_offset)

InitLnotab ==
    /\ asm_instructions = <<>>
    /\ asm_firstlineno = 1
    /\ asm_pc = "idle"
    /\ asm_i = 1
    /\ cur_line = 1
    /\ cur_bytecode = 0
    /\ code_len = 0
    /\ lnotab = <<>>
    /\ line_starts = <<>>
    /\ ml_call = None

\* A direct call modify_lnotab(byte_offset, line_offset).
CallModifyLnotab ==
    /\ asm_pc = "idle"
    /\ ml_call = None
    /\ \E b \in 0..MaxByteOffset, l \in 0..MaxLineOffset :
          ml_call' = Some([byte_offset |-> b, line_offset |-> l,
                           ret |-> modify_lnotab(b, l)])
    /\ UNCHANGED <<asm_instructions, asm_firstlineno, asm_pc, asm_i, cur_line,
                   cur_bytecode, code_len, lnotab, line_starts>>
    /\ UNCHANGED notLn

\* assemble(instructions, firstlineno) is entered: lines 80-84.
AssembleStart ==
    /\ asm_pc = "idle"
    /\ ml_call = None
    /\ \E n \in 1..MaxAsmLen :
       \E instrs \in [1..n -> {None} \cup {Some(l) : l \in AsmLines}] :
       \E first \in AsmLines :
          /\ asm_instructions' = instrs
          /\ asm_firstlineno' = first
          /\ cur_line' = first
    /\ cur_bytecode' = 0
    /\ code_len' = 0
    /\ lnotab' = <<>>
    /\ line_starts' = <<>>
    /\ asm_i' = 1
    /\ asm_pc' = "loop"
    /\ UNCHANGED ml_call
    /\ UNCHANGED notLn

\* One iteration of the loop of lines 86-99.
AssembleStep ==
    /\ asm_pc = "loop"
    /\ asm_i <= Len(asm_instructions)
    /\ LET starts_line == asm_instructions[asm_i] IN
       IF starts_line # None
       THEN LET line_offset == starts_line[1] - cur_line
                bytecode_offset == code_len - cur_bytecode
            IN /\ cur_line' = starts_line[1]
               /\ cur_bytecode' = code_len
               /\ lnotab' = lnotab \o modify_lnotab(bytecode_offset, line_offset)
               /\ line_starts' = Append(line_starts,
                      [offset |-> code_len, line |-> starts_line[1],
                       line_offset |-> line_offset])
       ELSE UNCHANGED <<cur_line, cur_bytecode, lnotab, line_starts>>
    /\ code_len' = code_len + 2
    /\ asm_i' = asm_i + 1
    /\ UNCHANGED <<asm_instructions, asm_firstlineno, asm_pc, ml_call>>
    /\ UNCHANGED notLn

\* The loop is over: line 101.  bytes(lnotab) takes integers in 0..255 only.
AssembleReturn ==
    /\ asm_pc = "loop"
    /\ asm_i > Len(asm_instructions)
    /\ asm_pc' = IF \A k \in 1..Len(lnotab) : lnotab[k] \in 0..255
                 THEN "returned" ELSE "ValueError"
    /\ UNCHANGED <<asm_instructions, asm_firstlineno, asm_i, cur_line,
                   cur_bytecode, code_len, lnotab, line_starts, ml_call>>
    /\ UNCHANGED notLn

NextLnotab == CallModifyLnotab \/ AssembleStart \/ AssembleStep \/ AssembleReturn

(***************************************************************************)
(* stacksize                                                               *)
(***************************************************************************)

\* Length of the instruction lists handed to stacksize.
StackLen == 5
\* Operand-stack depth beyond which a control-flow path is followed no further.
DepthCap == 6

\* float("-inf"), float("inf") and the integers, ordered as Python orders them.
NegInf == [inf |-> -1, n |-> 0]
PosInf == [inf |-> 1, n |-> 0]
Num(n) == [inf |-> 0, n |-> n]
LessEq(a, b) == a.inf < b.inf \/ (a.inf = b.inf /\ a.n <= b.n)
PyMax(a, b) == IF LessEq(a, b) THEN b ELSE a
PyMin(a, b) == IF LessEq(a, b) THEN a ELSE b
Plus(a, e) == IF a.inf = 0 THEN Num(a.n + e) ELSE a

RECURSIVE MaxOfSeq(_)
MaxOfSeq(s) == IF Len(s) = 1 THEN s[1] ELSE PyMax(s[1], MaxOfSeq(Tail(s)))
RECURSIVE MinOfSeq(_)
MinOfSeq(s) == IF Len(s) = 1 THEN s[1] ELSE PyMin(s[1], MinOfSeq(Tail(s)))

\* opcode.hasjabs and opcode.hasjrel, restricted to the opcodes modelled.
JumpOps == {"POP_JUMP_IF_FALSE", "JUMP_ABSOLUTE", "FOR_ITER"}
PlainOps == {"LOAD_CONST", "POP_TOP", "RETURN_VALUE"}

\* dis.stack_effect(opcode, arg, jump=jump) of CPython 3.8.
stack_effect(opname, jump) ==
    CASE opname = "LOAD_CONST" -> 1
      [] opname = "POP_TOP" -> -1
      [] opname = "RETURN_VALUE" -> -1
      [] opname = "POP_JUMP_IF_FALSE" -> -1
      [] opname = "JUMP_ABSOLUTE" -> 0
      [] opname = "FOR_ITER" -> IF jump THEN -1 ELSE 1

\* An instruction: its opname and the index of instr.jump_to (0: no jump_to).
StackInstrs(n) ==
    [opname : PlainOps, jump_to : {0}] \cup [opname : JumpOps, jump_to : 1..n]

\* update_stacksize's new min_stack[nexti]: it reads max_stack[lasti].
UpdatedMin(mins, maxs, lasti, nexti, effect) ==
    PyMin(mins[nexti], Plus(maxs[lasti], effect))

\* update_stacksize(lasti, nexti, stack_effect) applied to the pair of lists.
update_stacksize(st, lasti, nexti, effect) ==
    [max_stack |-> [st.max_stack EXCEPT
                      ![nexti] = PyMax(st.max_stack[nexti],
                                       Plus(st.max_stack[lasti], effect))],
     min_stack |-> [st.min_stack EXCEPT
                      ![nexti] = UpdatedMin(st.min_stack, st.max_stack,
                                            lasti, nexti, effect)]]

InitStack ==
    /\ ss_instructions = <<>>
    /\ ss_pc = "idle"
    /\ ss_idx = 1
    /\ max_stack = <<>>
    /\ min_stack = <<>>
    /\ ss_result = None

\* stacksize(instructions) is entered: lines 137-141.  The list ends in a
\* RETURN_VALUE, as every compiled code unit does.
StacksizeStart ==
    /\ ss_pc = "idle"
    /\ \E body \in [1..(StackLen - 1) -> StackInstrs(StackLen)] :
          ss_instructions' =
              Append(body, [opname |-> "RETURN_VALUE", jump_to |-> 0])
    /\ max_stack' = [i \in 1..StackLen |-> IF i = 1 THEN Num(0) ELSE NegInf]
    /\ min_stack' = [i \in 1..StackLen |-> IF i = 1 THEN Num(0) ELSE PosInf]
    /\ ss_idx' = 1
    /\ ss_pc' = "loop"
    /\ UNCHANGED ss_result
    /\ UNCHANGED notSs

\* One iteration of the loop of lines 151-161.
StacksizeStep ==
    /\ ss_pc = "loop"
    /\ ss_idx <= Len(ss_instructions)
    /\ LET instr == ss_instructions[ss_idx]
           st0 == [max_stack |-> max_stack, min_stack |-> min_stack]
           st1 == IF ss_idx + 1 <= Len(ss_instructions)
                  THEN update_stacksize(st0, ss_idx, ss_idx + 1,
                                        stack_effect(instr.opname, FALSE))
                  ELSE st0
           st2 == IF instr.opname \in JumpOps
                  THEN update_stacksize(st1, ss_idx, instr.jump_to,
                                        stack_effect(instr.opname, TRUE))
                  ELSE st1
       IN /\ max_stack' = st2.max_stack
          /\ min_stack' = st2.min_stack
    /\ ss_idx' = ss_idx + 1
    /\ UNCHANGED <<ss_instructions, ss_pc, ss_result>>
    /\ UNCHANGED notSs

\* Lines 163-164: the assertion, then the returned maximum.
StacksizeReturn ==
    /\ ss_pc = "loop"
    /\ ss_idx > Len(ss_instructions)
    /\ IF LessEq(Num(0), MinOfSeq(min_stack))
       THEN ss_pc' = "returned" /\ ss_result' = Some(MaxOfSeq(max_stack))
       ELSE ss_pc' = "AssertionError" /\ UNCHANGED ss_result
    /\ UNCHANGED <<ss_instructions, ss_idx, max_stack, min_stack>>
    /\ UNCHANGED notSs

NextStack == StacksizeStart \/ StacksizeStep \/ StacksizeReturn

\* The program points a control-flow path of the interpreter reaches, with the
\* operand-stack depth it has there: from (first instruction, 0), along the
\* fall-through and jump edges the interpreter really takes.  The exit a
\* RETURN_VALUE leaves through is the program point Len(instrs) + 1.
PathSucc(instrs, node) ==
    LET instr == IF node.pc <= Len(instrs) THEN instrs[node.pc]
                 ELSE [opname |-> "EXIT", jump_to |-> 0]
        fall == IF node.pc + 1 <= Len(instrs)
                THEN {[pc |-> node.pc + 1,
                       depth |-> node.depth + stack_effect(instr.opname, FALSE)]}
                ELSE {}
        jump == {[pc |-> instr.jump_to,
                  depth |-> node.depth + stack_effect(instr.opname, TRUE)]}
    IN CASE instr.opname = "EXIT" -> {}
         [] instr.opname = "RETURN_VALUE" ->
                {[pc |-> Len(instrs) + 1,
                  depth |-> node.depth + stack_effect(instr.opname, FALSE)]}
         [] instr.opname = "JUMP_ABSOLUTE" -> jump
         [] instr.opname \in JumpOps -> fall \cup jump
         [] OTHER -> fall

RECURSIVE PathReach(_, _)
PathReach(instrs, seen) ==
    LET live == {nd \in seen : nd.depth >= 0 /\ nd.depth <= DepthCap}
        next == seen \cup UNION {PathSucc(instrs, nd) : nd \in live}
    IN IF next = seen THEN seen ELSE PathReach(instrs, next)

PathNegative(instrs) ==
    \E nd \in PathReach(instrs, {[pc |-> 1, depth |-> 0]}) : nd.depth < 0

(***************************************************************************)
(* MetaInfo, TensorVariable, DygraphTracerVariable                         *)
(***************************************************************************)

\* Most variables one trace constructs.
MaxVars == 2

Dtypes == {"paddle.float32", "paddle.int64"}
\* The eager tensors a caller binds to the traced function's local: their
\* shapes are concrete.
FrameShapes == {<<12>>, <<1, 2>>}
FrameTensors ==
    [shape : FrameShapes, dtype : Dtypes, stop_gradient : {TRUE},
     data : {"a", "b"}]
\* The metadata the shape oracle hands back for an operation's output: a
\* dimension it cannot resolve is -1.
InferredMetas ==
    [shape : {<<2>>, <<-1>>, <<2, -1>>}, dtype : {"paddle.float32"},
     stop_gradient : {TRUE}]
LocalNames == {"x"}

DummyTracker == [kind |-> "DummyTracker", name |-> ""]
LocalTracker(name) == [kind |-> "LocalTracker", name |-> name]

\* MetaInfo.from_tensor
MetaInfo_from_tensor(tensor) ==
    [shape |-> tensor.shape, dtype |-> tensor.dtype,
     stop_gradient |-> tensor.stop_gradient]

\* is_dynamic_shape looking at the leading dimension only.
is_dynamic_shape_leading_dim(meta) ==
    meta.shape # <<>> /\ meta.shape[1] = -1

\* MetaInfo.is_dynamic_shape: -1 in self.shape
is_dynamic_shape(meta) == -1 \in {meta.shape[k] : k \in 1..Len(meta.shape)}

\* str(n) of an integer, one character per element.
Digit(d) == <<"0", "1", "2", "3", "4", "5", "6", "7", "8", "9">>[d + 1]
RECURSIVE IntStr(_)
IntStr(n) ==
    IF n < 0 THEN <<"-">> \o IntStr(-n)
    ELSE IF n < 10 THEN <<Digit(n)>>
    ELSE IntStr(n \div 10) \o <<Digit(n % 10)>>

\* str(shape) of a list of integers: "[a, b, c]".
RECURSIVE JoinInts(_)
JoinInts(shape) ==
    IF shape = <<>> THEN <<>>
    ELSE IF Len(shape) = 1 THEN IntStr(shape[1])
    ELSE IntStr(shape[1]) \o <<",", " ">> \o JoinInts(Tail(shape))
ListStr(shape) == <<"[">> \o JoinInts(shape) \o <<"]">>

\* utils.meta_str: "(shape: {shape}, dtype: {dtype}, stop_gradient: {flag})".
meta_str(shape, dtype, stop_gradient) ==
    <<"(shape: ">> \o ListStr(shape) \o <<", dtype: ", dtype>>
    \o <<", stop_gradient: ", IF stop_gradient THEN "True" ELSE "False", ")">>

\* A __repr__ that leaves the dtype out.
MetaInfo_repr_without_dtype(meta) ==
    meta_str(meta.shape, "", meta.stop_gradient)

\* MetaInfo.__repr__, which str(meta) and f"{meta}" use.
MetaInfo_repr(meta) == meta_str(meta.shape, meta.dtype, meta.stop_gradient)

\* Tracker.trace_value_from_frame: the expression that re-reads the value.
trace_value_from_frame(tracker) ==
    [expr |-> <<"frame.f_locals[", tracker.name, "]">>,
     free_vars |-> {"frame"}]

\* A make_stringify_guard call that ended in an error.
GuardRaised(error) ==
    [raised |-> error, call |-> "", expr |-> <<>>, literal |-> <<>>,
     free_vars |-> {}]

\* TensorVariable.make_stringify_guard: the assertion, then the guard
\*   str(MetaInfo.from_tensor(<expr>)) == '<self.meta>'
TensorVariable_make_stringify_guard(var) ==
    IF var.tracker.kind = "DummyTracker"
    THEN GuardRaised("AssertionError")
    ELSE LET frame_value_tracer == trace_value_from_frame(var.tracker)
         IN [raised |-> "",
             call |-> "str(MetaInfo.from_tensor(_))",
             expr |-> frame_value_tracer.expr,
             literal |-> MetaInfo_repr(var.meta),
             free_vars |-> {"MetaInfo"} \cup frame_value_tracer.free_vars]

\* The tracer variable's guard without the assertion on its tracker.
DygraphTracerVariable_guard_unasserted(var) ==
    [raised |-> "", call |-> "True", expr |-> <<>>, literal |-> <<>>,
     free_vars |-> {}]

\* DygraphTracerVariable.make_stringify_guard: the assertion, then
\* StringifyExpression("True", {}).
DygraphTracerVariable_make_stringify_guard(var) ==
    IF var.tracker.kind = "DummyTracker"
    THEN GuardRaised("AssertionError")
    ELSE [raised |-> "", call |-> "True", expr |-> <<>>, literal |-> <<>>,
          free_vars |-> {}]

\* The guard evaluated against a frame.
EvalGuard(guard, f_locals) ==
    IF guard.call = "True" THEN TRUE
    ELSE MetaInfo_repr(MetaInfo_from_tensor(f_locals[guard.expr[2]]))
             = guard.literal

InitTensor ==
    /\ frame = <<>>
    /\ variables = <<>>
    /\ var_name_count = 0
    /\ guarded = {}
    /\ shape_out = <<>>
    /\ guard_out = <<>>
    /\ graph_calls = <<>>
    /\ operations = <<>>

\* The traced function is called: its locals are bound to the arguments.
\* A later call re-binds them (this is when guards are evaluated).
BindFrame ==
    /\ \E f \in [LocalNames -> FrameTensors] : frame' = f
    /\ frame' # frame
    /\ UNCHANGED <<variables, var_name_count, guarded, shape_out, guard_out>>
    /\ UNCHANGED <<graph_calls, operations, notTv>>

\* TensorVariable.__init__ given a paddle.Tensor read from a frame local.
NewTensorFromFrame ==
    /\ frame # <<>>
    /\ Len(variables) < MaxVars
    /\ \E name \in LocalNames :
          variables' = Append(variables,
              [cls |-> "TensorVariable",
               value |-> Some(frame[name]),
               meta |-> MetaInfo_from_tensor(frame[name]),
               var_name |-> <<"var_", var_name_count>>,
               tracker |-> LocalTracker(name)])
    /\ var_name_count' = var_name_count + 1
    /\ shape_out' = Append(shape_out, "unread")
    /\ guard_out' = Append(guard_out, None)
    /\ UNCHANGED <<frame, guarded>>
    /\ UNCHANGED <<graph_calls, operations, notTv>>

\* TensorVariable.__init__ given the MetaInfo of an operation's output.
NewTensorFromMeta ==
    /\ frame # <<>>
    /\ Len(variables) < MaxVars
    /\ \E meta \in InferredMetas :
          variables' = Append(variables,
              [cls |-> "TensorVariable",
               value |-> None,
               meta |-> meta,
               var_name |-> <<"var_", var_name_count>>,
               tracker |-> DummyTracker])
    /\ var_name_count' = var_name_count + 1
    /\ shape_out' = Append(shape_out, "unread")
    /\ guard_out' = Append(guard_out, None)
    /\ UNCHANGED <<frame, guarded>>
    /\ UNCHANGED <<graph_calls, operations, notTv>>

\* DygraphTracerVariable.__init__
NewDygraphTracer ==
    /\ frame # <<>>
    /\ Len(variables) < MaxVars
    /\ \E tracker \in {DummyTracker} \cup {LocalTracker(n) : n \in LocalNames} :
          variables' = Append(variables,
              [cls |-> "DygraphTracerVariable",
               value |-> Some("tracer"),
               meta |-> None,
               var_name |-> None,
               tracker |-> tracker])
    /\ shape_out' = Append(shape_out, "unread")
    /\ guard_out' = Append(guard_out, None)
    /\ UNCHANGED <<frame, guarded, var_name_count>>
    /\ UNCHANGED <<graph_calls, operations, notTv>>

\* The property with the registration moved ahead of the dynamic-shape test.
ReadShape_registering_first ==
    \E i \in 1..Len(variables) :
       /\ variables[i].cls = "TensorVariable"
       /\ guarded' = guarded \cup {i}
       /\ shape_out' = [shape_out EXCEPT ![i] =
              IF is_dynamic_shape(variables[i].meta)
              THEN "BreakGraphError" ELSE "returned"]
       /\ UNCHANGED <<frame, variables, var_name_count, guard_out>>
       /\ UNCHANGED <<graph_calls, operations, notTv>>

\* The property TensorVariable.shape.
ReadShape ==
    \E i \in 1..Len(variables) :
       /\ variables[i].cls = "TensorVariable"
       /\ IF is_dynamic_shape(variables[i].meta)
          THEN /\ shape_out' = [shape_out EXCEPT ![i] = "BreakGraphError"]
               /\ UNCHANGED guarded
          ELSE /\ guarded' = guarded \cup {i}
               /\ shape_out' = [shape_out EXCEPT ![i] = "returned"]
       /\ UNCHANGED <<frame, variables, var_name_count, guard_out>>
       /\ UNCHANGED <<graph_calls, operations, notTv>>

\* make_stringify_guard of a TensorVariable or a DygraphTracerVariable.
MakeStringifyGuard ==
    \E i \in 1..Len(variables) :
       /\ guard_out' = [guard_out EXCEPT ![i] = Some(
              IF variables[i].cls = "TensorVariable"
              THEN TensorVariable_make_stringify_guard(variables[i])
              ELSE DygraphTracerVariable_make_stringify_guard(variables[i]))]
       /\ UNCHANGED <<frame, variables, var_name_count, guarded, shape_out>>
       /\ UNCHANGED <<graph_calls, operations, notTv>>

\* Most logged operations on TensorVariables (.shape and
\* make_stringify_guard are not logged and not limited).
MaxOps == 1

\* The keys and the values of the indexing operations.
Keys == {0, 1}

\* The names a tensor is asked for through __getattr__.
AttrNames ==
    {"shape", "dtype", "stop_gradient", "reshape", "T", "ndim", "size",
     "data"}
paddle_tensor_methods == {"reshape"}

\* What an operation hands back: a constant (ints or text), the tensor
\* variable at an index (ints), a bound method or an error (text).
Result(kind, ints, text) == [kind |-> kind, ints |-> ints, text |-> text]

BoolStr(b) == IF b THEN "True" ELSE "False"

RECURSIVE Product(_)
Product(shape) ==
    IF shape = <<>> THEN 1 ELSE Head(shape) * Product(Tail(shape))

\* perm = list(range(len(shape) - 1, -1, -1))
ReversedRange(n) == [k \in 1..n |-> n - k]

\* The graph and the variables as one value the operations work on.
Graph(vs, count, gcalls) ==
    [variables |-> vs, var_name_count |-> count, graph_calls |-> gcalls]

\* FunctionGraph.call_tensor_method / call_paddle_api: the call is recorded
\* and its output is a new TensorVariable with the metadata the shape
\* oracle gives.
graph_call(g, kind, name, self, args, out_meta) ==
    [variables |-> Append(g.variables,
         [cls |-> "TensorVariable",
          value |-> None,
          meta |-> out_meta,
          var_name |-> <<"var_", g.var_name_count>>,
          tracker |-> DummyTracker]),
     var_name_count |-> g.var_name_count + 1,
     graph_calls |-> Append(g.graph_calls,
         [kind |-> kind, name |-> name, self |-> self, args |-> args]),
     result |-> Result("TensorVariable", <<Len(g.variables) + 1>>, "")]

\* An operation that leaves the graph alone.
Local(g, result) ==
    [variables |-> g.variables, var_name_count |-> g.var_name_count,
     graph_calls |-> g.graph_calls, result |-> result]

\* TensorVariable.__getitem__(key) of the variable at index self.
TensorVariable__getitem__(g, self, key, out_meta) ==
    graph_call(g, "call_tensor_method", "__getitem__", self, <<key>>,
               out_meta)

\* __setitem__ writing the receiver itself and recording nothing.
TensorVariable__setitem__in_place(g, self, key, value, out_meta) ==
    Local([g EXCEPT !.variables[self].meta = out_meta],
          Result("TensorVariable", <<self>>, ""))

\* TensorVariable.__setitem__(key, value) of the variable at index self.
TensorVariable__setitem__(g, self, key, value, out_meta) ==
    graph_call(g, "call_tensor_method", "__setitem__", self, <<key, value>>,
               out_meta)

\* The property TensorVariable.T
TensorVariable_T(g, self, out_meta) ==
    graph_call(g, "call_paddle_api", "paddle.transpose", self,
               ReversedRange(Len(g.variables[self].meta.shape)), out_meta)

\* The property TensorVariable.ndim
TensorVariable_ndim(g, self) ==
    Local(g, Result("ConstantVariable",
                    <<Len(g.variables[self].meta.shape)>>, ""))

\* The property TensorVariable.size
TensorVariable_size(g, self) ==
    IF is_dynamic_shape(g.variables[self].meta)
    THEN Local(g, Result("BreakGraphError", <<>>, ""))
    ELSE Local(g, Result("ConstantVariable",
                         <<Product(g.variables[self].meta.shape)>>, ""))

\* TensorVariable.__getattr__(name)
TensorVariable__getattr__(g, self, name, out_meta) ==
    CASE name = "shape" ->
            Local(g, Result("GetAttr", g.variables[self].meta.shape, ""))
      [] name = "dtype" ->
            Local(g, Result("GetAttr", <<>>, g.variables[self].meta.dtype))
      [] name = "stop_gradient" ->
            Local(g, Result("GetAttr", <<>>,
                            BoolStr(g.variables[self].meta.stop_gradient)))
      [] name \in paddle_tensor_methods ->
            Local(g, Result("TensorFunctionVariable", <<self>>, name))
      [] name = "T" -> TensorVariable_T(g, self, out_meta)
      [] name = "ndim" -> TensorVariable_ndim(g, self)
      [] name = "size" -> TensorVariable_size(g, self)
      [] OTHER -> Local(g, Result("InnerError", <<>>, name))

\* The operation is over: the graph is as it left it, and it is logged.
Finish(op, self, done) ==
    /\ variables' = done.variables
    /\ var_name_count' = done.var_name_count
    /\ graph_calls' = done.graph_calls
    /\ shape_out' = IF Len(done.variables) > Len(variables)
                    THEN Append(shape_out, "unread") ELSE shape_out
    /\ guard_out' = IF Len(done.variables) > Len(variables)
                    THEN Append(guard_out, None) ELSE guard_out
    /\ operations' = Append(operations,
          [op |-> op, self |-> self, calls |-> Len(graph_calls),
           result |-> done.result])
    /\ UNCHANGED <<frame, guarded>>
    /\ UNCHANGED notTv

\* An operation that may add a call to the graph, on a tensor variable.
Operand(i) ==
    /\ Len(operations) < MaxOps
    /\ i \in 1..Len(variables)
    /\ variables[i].cls = "TensorVariable"

GetItem ==
    \E i \in 1..Len(variables), key \in Keys, out_meta \in InferredMetas :
       /\ Operand(i)
       /\ Len(variables) < MaxVars
       /\ Finish("__getitem__", i,
                 TensorVariable__getitem__(
                    Graph(variables, var_name_count, graph_calls),
                    i, key, out_meta))

SetItem ==
    \E i \in 1..Len(variables), key \in Keys, value \in Keys,
       out_meta \in InferredMetas :
       /\ Operand(i)
       /\ Len(variables) < MaxVars
       /\ Finish("__setitem__", i,
                 TensorVariable__setitem__(
                    Graph(variables, var_name_count, graph_calls),
                    i, key, value, out_meta))

GetAttr ==
    \E i \in 1..Len(variables), name \in AttrNames,
       out_meta \in InferredMetas :
       /\ Operand(i)
       /\ name = "T" => Len(variables) < MaxVars
       /\ Finish(name, i,
                 TensorVariable__getattr__(
                    Graph(variables, var_name_count, graph_calls),
                    i, name, out_meta))

NextTensor ==
    \/ BindFrame
    \/ NewTensorFromFrame
    \/ NewTensorFromMeta
    \/ NewDygraphTracer
    \/ ReadShape
    \/ MakeStringifyGuard
    \/ GetItem
    \/ SetItem
    \/ GetAttr

(***************************************************************************)
(* CompileSIRCache                                                         *)
(***************************************************************************)

\* Most statements in a SIR, most calls of the cache, and the threads.
MaxSirLen == 2
MaxRequests == 3
NumThreads == 2
\* The number of values hash() takes (2^64 in CPython, far fewer than there
\* are strings; scaled down here).
HashSpace == 2

OpNames == {"add", "mul"}
\* A SIR: its statements in order.  Statement k names its operation, reads
\* the symbol var_(k-1) and writes var_k.
Statement(op, k) ==
    [name |-> op, inputs |-> <<"var_", k - 1>>, outputs |-> <<"var_", k>>]
SIRs ==
    UNION {{[k \in 1..n |-> Statement(ops[k], k)] : ops \in [1..n -> OpNames]}
           : n \in 1..MaxSirLen}
BuildStrategies == {"default", "cinn"}
Threads == 1..NumThreads
HashValues == 0..(HashSpace - 1)

\* str(sir): one line per statement, "out = name(in)".
RECURSIVE SirStr(_)
SirStr(sir) ==
    IF sir = <<>> THEN <<>>
    ELSE sir[1].outputs \o <<" = ", sir[1].name, "(">> \o sir[1].inputs
         \o <<")", "\n">> \o SirStr(Tail(sir))

\* hash(string) where this process has hashed the string before, else the
\* value h the process's hash seed gives it.
HashOf(string, h) ==
    IF string \in DOMAIN str_hash THEN str_hash[string] ELSE h

\* CompileSIRCache.key_fn: hash(str(context.get_sir(sir_name))).
key_fn(sir, h) == HashOf(SirStr(sir), h)

\* CompileSIRCache.value_fn: a new FallbackWrapper around the compiled SIR.
value_fn(sir, build_strategy, key) ==
    [SIR |-> sir, build_strategy |-> build_strategy, key |-> key,
     partial_program |-> None, concrete_program |-> None]

IdleThread == [pc |-> "idle", sir |-> <<>>, build_strategy |-> "",
               key |-> None, value |-> 0]

InitCache ==
    /\ str_hash = <<>>
    /\ cache = <<>>
    /\ wrappers = <<>>
    /\ requests = <<>>
    /\ threads = [t \in Threads |-> IdleThread]
    /\ calls = <<>>

Remember(string, h) ==
    IF string \in DOMAIN str_hash THEN str_hash
    ELSE (string :> h) @@ str_hash

\* The call storing under the key whatever came of value_fn, a failure
\* included.
CompileSIR_storing_failure ==
    /\ Len(requests) < MaxRequests
    /\ \E sir \in SIRs, build_strategy \in BuildStrategies, h \in HashValues,
          fails \in BOOLEAN :
          LET cache_key == key_fn(sir, h)
              hit == cache_key \in DOMAIN cache
              raised == ~hit /\ fails
              value == IF hit THEN cache[cache_key]
                       ELSE IF raised THEN 0 ELSE Len(wrappers) + 1
          IN /\ str_hash' = Remember(SirStr(sir), h)
             /\ wrappers' = IF hit \/ raised THEN wrappers
                            ELSE Append(wrappers,
                                   value_fn(sir, build_strategy, cache_key))
             /\ cache' = IF hit THEN cache
                         ELSE (cache_key :> value) @@ cache
             /\ requests' = Append(requests,
                   [sir |-> sir, build_strategy |-> build_strategy,
                    key |-> cache_key, ret |-> value,
                    invoked |-> ~hit, raised |-> raised])
    /\ UNCHANGED <<threads, calls>>
    /\ UNCHANGED notCc

\* Cache.__call__(context, sir_name, build_strategy), run without
\* interruption: the key, the lookup, and on a miss value_fn and the store.
\* value_fn may raise (fails): the error leaves the call before the store.
CompileSIR ==
    /\ Len(requests) < MaxRequests
    /\ \E sir \in SIRs, build_strategy \in BuildStrategies, h \in HashValues,
          fails \in BOOLEAN :
          LET cache_key == key_fn(sir, h)
              hit == cache_key \in DOMAIN cache
              raised == ~hit /\ fails
              value == IF hit THEN cache[cache_key]
                       ELSE IF raised THEN 0 ELSE Len(wrappers) + 1
          IN /\ str_hash' = Remember(SirStr(sir), h)
             /\ wrappers' = IF hit \/ raised THEN wrappers
                            ELSE Append(wrappers,
                                   value_fn(sir, build_strategy, cache_key))
             /\ cache' = IF hit \/ raised THEN cache
                         ELSE (cache_key :> value) @@ cache
             /\ requests' = Append(requests,
                   [sir |-> sir, build_strategy |-> build_strategy,
                    key |-> cache_key, ret |-> value,
                    invoked |-> ~hit, raised |-> raised])
    /\ UNCHANGED <<threads, calls>>
    /\ UNCHANGED notCc

\* Most calls of FallbackWrappers.
MaxCalls == 2

\* The arguments of a call, by their shapes.
CallArgs == {"tx_tx", "tx_ty"}

\* compiled_fn.get_concrete_program(*args): the concrete and the partial
\* program of the SIR, specialised to the arguments.
get_concrete_program(sir, args) ==
    [concrete_program |-> [SIR |-> sir, args |-> args, kind |-> "concrete"],
     partial_program |-> [SIR |-> sir, args |-> args, kind |-> "partial"]]

\* The outputs of running a program specialised to program.args on args.
RunProgram(program, args) ==
    [SIR |-> program.SIR, specialised_to |-> program.args, args |-> args]

\* compiled_fn(*args): the program for the arguments, run on them.
compiled_fn(sir, args) ==
    RunProgram(get_concrete_program(sir, args).partial_program, args)

\* __call__ with the condition `self.partial_program is None`.
FallbackWrapper_call_cached(self, args) ==
    IF self.partial_program = None
    THEN LET programs == get_concrete_program(self.SIR, args)
         IN [self |-> [self EXCEPT
                          !.concrete_program =
                             Some(programs.concrete_program),
                          !.partial_program =
                             Some(programs.partial_program)],
             outputs |-> compiled_fn(self.SIR, args),
             compiled_fn_calls |-> 1, used_partial_program |-> FALSE]
    ELSE [self |-> self,
          outputs |-> RunProgram(self.partial_program[1], args),
          compiled_fn_calls |-> 0, used_partial_program |-> TRUE]

\* FallbackWrapper.__call__(*args): the condition on line 54 is
\* `self.partial_program is None or True`.
FallbackWrapper_call(self, args) ==
    IF self.partial_program = None \/ TRUE
    THEN LET programs == get_concrete_program(self.SIR, args)
         IN [self |-> [self EXCEPT
                          !.concrete_program =
                             Some(programs.concrete_program),
                          !.partial_program =
                             Some(programs.partial_program)],
             outputs |-> compiled_fn(self.SIR, args),
             compiled_fn_calls |-> 1, used_partial_program |-> FALSE]
    ELSE [self |-> self,
          outputs |-> RunProgram(self.partial_program[1], args),
          compiled_fn_calls |-> 0, used_partial_program |-> TRUE]

\* A FallbackWrapper the cache has handed out is called.
CallFallbackWrapper ==
    /\ Len(calls) < MaxCalls
    /\ \E w \in 1..Len(wrappers), args \in CallArgs :
          LET done == FallbackWrapper_call(wrappers[w], args)
          IN /\ wrappers' = [wrappers EXCEPT ![w] = done.self]
             /\ calls' = Append(calls,
                   [wrapper |-> w, args |-> args, outputs |-> done.outputs,
                    compiled_fn_calls |-> done.compiled_fn_calls,
                    used_partial_program |-> done.used_partial_program])
    /\ UNCHANGED <<str_hash, cache, requests, threads>>
    /\ UNCHANGED notCc

NextCache == CompileSIR \/ CallFallbackWrapper

\* ---- the same call, one step at a time, on several threads

Started == Cardinality({t \in Threads : threads[t].pc # "idle"}) + Len(requests)

\* cache_key = self.key_fn(*args, **kwargs)
ThreadKeyFn(t) ==
    /\ threads[t].pc = "idle"
    /\ Started < MaxRequests
    /\ \E sir \in SIRs, build_strategy \in BuildStrategies, h \in HashValues :
          /\ str_hash' = Remember(SirStr(sir), h)
          /\ threads' = [threads EXCEPT ![t] =
                [pc |-> "lookup", sir |-> sir,
                 build_strategy |-> build_strategy,
                 key |-> Some(key_fn(sir, h)), value |-> 0]]
    /\ UNCHANGED <<cache, wrappers, requests, calls>>
    /\ UNCHANGED notCc

\* if cache_key in self.cache: return self.cache[cache_key]
ThreadLookup(t) ==
    /\ threads[t].pc = "lookup"
    /\ LET cache_key == threads[t].key[1] IN
       IF cache_key \in DOMAIN cache
       THEN /\ requests' = Append(requests,
                  [sir |-> threads[t].sir,
                   build_strategy |-> threads[t].build_strategy,
                   key |-> cache_key, ret |-> cache[cache_key],
                   invoked |-> FALSE, raised |-> FALSE])
            /\ threads' = [threads EXCEPT ![t] = IdleThread]
       ELSE /\ threads' = [threads EXCEPT ![t].pc = "value_fn"]
            /\ UNCHANGED requests
    /\ UNCHANGED <<str_hash, cache, wrappers, calls>>
    /\ UNCHANGED notCc

\* value = self.value_fn(*args, **kwargs)
ThreadValueFn(t) ==
    /\ threads[t].pc = "value_fn"
    /\ wrappers' = Append(wrappers,
          value_fn(threads[t].sir, threads[t].build_strategy,
                   threads[t].key[1]))
    /\ threads' = [threads EXCEPT ![t].pc = "store",
                                  ![t].value = Len(wrappers) + 1]
    /\ UNCHANGED <<str_hash, cache, requests, calls>>
    /\ UNCHANGED notCc

\* self.cache[cache_key] = value; return value
ThreadStore(t) ==
    /\ threads[t].pc = "store"
    /\ cache' = [k \in DOMAIN cache \cup {threads[t].key[1]} |->
                   IF k = threads[t].key[1] THEN threads[t].value
                   ELSE cache[k]]
    /\ requests' = Append(requests,
          [sir |-> threads[t].sir,
           build_strategy |-> threads[t].build_strategy,
           key |-> threads[t].key[1], ret |-> threads[t].value,
           invoked |-> TRUE, raised |-> FALSE])
    /\ threads' = [threads EXCEPT ![t] = IdleThread]
    /\ UNCHANGED <<str_hash, wrappers, calls>>
    /\ UNCHANGED notCc

NextCacheThreads ==
    \E t \in Threads :
       \/ ThreadKeyFn(t)
       \/ ThreadLookup(t)
       \/ ThreadValueFn(t)
       \/ ThreadStore(t)

(***************************************************************************)
(* PyCodeGen.gen_resume_fn_at, and the interpreter that runs its result    *)
(***************************************************************************)

\* Instructions of an original function ahead of its final RETURN_VALUE.
BodyLen == 4

\* An instruction: name is the local or cell it names, const its constant,
\* jump_to the instruction it jumps to (by identity), id its own identity.
Instr(opname, name, const, jump_to, id) ==
    [opname |-> opname, name |-> name, const |-> const, jump_to |-> jump_to,
     id |-> id]

\* The instructions a body is drawn from; a conditional jump goes to the
\* last instruction of the body.
BodyInstrs ==
    {Instr("LOAD_FAST", n, 0, 0, 0) : n \in {"a", "b", "c"}}
    \cup {Instr("STORE_FAST", "c", 0, 0, 0),
          Instr("LOAD_CONST", "", 1, 0, 0),
          Instr("LOAD_DEREF", "z", 0, 0, 0),
          Instr("BINARY_ADD", "", 0, 0, 0),
          Instr("POP_JUMP_IF_FALSE", "", 0, BodyLen, 0)}

\* get_instructions(code): a body followed by RETURN_VALUE, each
\* instruction identified by its position.
OriginInstructions ==
    {[k \in 1..(BodyLen + 1) |->
         IF k <= BodyLen THEN [body[k] EXCEPT !.id = k]
         ELSE Instr("RETURN_VALUE", "", 0, 0, k)] :
       body \in [1..BodyLen -> BodyInstrs]}

\* The code attributes gen_code_options copies, for
\*   def f(a, b), def f(a, *, b), def f(a, b) closing over z, and a
\*   function that is itself a resume function, made at a break with one
\*   stack value and the inputs a and b.
CodeOptions ==
    {[co_argcount |-> 2, co_kwonlyargcount |-> 0, co_freevars |-> <<>>,
      co_varnames |-> <<"a", "b", "c">>, co_name |-> "f"],
     [co_argcount |-> 3, co_kwonlyargcount |-> 0, co_freevars |-> <<>>,
      co_varnames |-> <<"__stack_arg0", "a", "b", "c">>,
      co_name |-> "resume"],
     [co_argcount |-> 1, co_kwonlyargcount |-> 1, co_freevars |-> <<>>,
      co_varnames |-> <<"a", "b", "c">>, co_name |-> "f"],
     [co_argcount |-> 2, co_kwonlyargcount |-> 0, co_freevars |-> <<"z">>,
      co_varnames |-> <<"a", "b", "c">>, co_name |-> "f"]}

\* The values the original function is called with, and the value in the
\* cell it closes over.
OriginArgs ==
    {[n \in {"a", "b", "z", "__stack_arg0"} |->
         IF n = "a" THEN a ELSE IF n = "b" THEN 2 ELSE IF n = "z" THEN 5
         ELSE 7] : a \in {0, 1}}

Range(f) == {f[k] : k \in DOMAIN f}
Top(stack) == stack[Len(stack)]
Pop(stack, n) == SubSeq(stack, 1, Len(stack) - n)

\* The position in a list of the instruction a jump refers to.
PositionOf(instructions, id) ==
    CHOOSE p \in 1..Len(instructions) : instructions[p].id = id

\* The instruction a jump refers to is in the list.
InList(instructions, id) ==
    \E p \in 1..Len(instructions) : instructions[p].id = id

\* A call of a function made from code: positional args, keyword kwargs and
\* the closure cells.  Neither function has defaults.
CallFunction(code, args, kwargs, cells) ==
    LET kwonly == {code.co_varnames[k] :
                     k \in (code.co_argcount + 1)..
                           (code.co_argcount + code.co_kwonlyargcount)}
        bound == Len(args) = code.co_argcount
                 /\ kwonly \subseteq DOMAIN kwargs
    IN [pc |-> 1, stack |-> <<>>,
        f_locals |-> [n \in Range(code.co_varnames) |->
            LET k == CHOOSE j \in 1..Len(code.co_varnames) :
                        code.co_varnames[j] = n
            IN IF ~bound THEN None
               ELSE IF k <= code.co_argcount THEN Some(args[k])
               ELSE IF n \in DOMAIN kwargs THEN Some(kwargs[n])
               ELSE None],
        cells |-> cells,
        status |-> IF bound THEN "running" ELSE "TypeError",
        ret |-> None, executed |-> <<>>]

Stopped(fr, status) == [fr EXCEPT !.status = status]
Advance(fr, instr, pc, stack) ==
    [fr EXCEPT !.pc = pc, !.stack = stack,
               !.executed = Append(fr.executed, instr.id)]

\* One instruction of the frame fr running the list instructions.  A pop
\* from an empty stack never occurs in compiled code: such a list is
\* marked invalid and dropped.
Execute(instructions, fr) ==
    LET instr == instructions[fr.pc]
        op == instr.opname
        depth == Len(fr.stack)
    IN CASE op = "LOAD_FAST" ->
              IF fr.f_locals[instr.name] = None
              THEN Stopped(fr, "UnboundLocalError")
              ELSE Advance(fr, instr, fr.pc + 1,
                           Append(fr.stack, fr.f_locals[instr.name][1]))
         [] op = "STORE_FAST" ->
              IF depth < 1 THEN Stopped(fr, "invalid")
              ELSE [Advance(fr, instr, fr.pc + 1, Pop(fr.stack, 1))
                      EXCEPT !.f_locals[instr.name] = Some(Top(fr.stack))]
         [] op = "LOAD_CONST" ->
              Advance(fr, instr, fr.pc + 1, Append(fr.stack, instr.const))
         [] op = "LOAD_DEREF" ->
              IF instr.name \notin DOMAIN fr.cells THEN Stopped(fr, "invalid")
              ELSE Advance(fr, instr, fr.pc + 1,
                           Append(fr.stack, fr.cells[instr.name]))
         [] op = "BINARY_ADD" ->
              IF depth < 2 THEN Stopped(fr, "invalid")
              ELSE Advance(fr, instr, fr.pc + 1,
                      Append(Pop(fr.stack, 2),
                             fr.stack[depth - 1] + fr.stack[depth]))
         [] op = "POP_JUMP_IF_FALSE" ->
              IF depth < 1 \/ ~InList(instructions, instr.jump_to)
              THEN Stopped(fr, "invalid")
              ELSE Advance(fr, instr,
                      IF Top(fr.stack) = 0
                      THEN PositionOf(instructions, instr.jump_to)
                      ELSE fr.pc + 1,
                      Pop(fr.stack, 1))
         [] op = "JUMP_ABSOLUTE" ->
              IF ~InList(instructions, instr.jump_to)
              THEN Stopped(fr, "invalid")
              ELSE Advance(fr, instr,
                      PositionOf(instructions, instr.jump_to), fr.stack)
         [] op = "NOP" ->
              Advance(fr, instr, fr.pc + 1, fr.stack)
         [] op = "POP_TOP" ->
              IF depth < 1 THEN Stopped(fr, "invalid")
              ELSE Advance(fr, instr, fr.pc + 1, Pop(fr.stack, 1))
         [] op = "BUILD_TUPLE" ->
              IF depth < instr.const THEN Stopped(fr, "invalid")
              ELSE Advance(fr, instr, fr.pc + 1,
                      Append(Pop(fr.stack, instr.const),
                             SubSeq(fr.stack, depth - instr.const + 1,
                                    depth)))
         [] op = "FOR_ITER" ->
              IF depth < 1 \/ ~InList(instructions, instr.jump_to)
              THEN Stopped(fr, "invalid")
              ELSE IF Top(fr.stack) = <<>>
              THEN Advance(fr, instr,
                      PositionOf(instructions, instr.jump_to),
                      Pop(fr.stack, 1))
              ELSE Advance(fr, instr, fr.pc + 1,
                      Pop(fr.stack, 1)
                      \o <<Tail(Top(fr.stack)), Head(Top(fr.stack))>>)
         [] op = "RETURN_VALUE" ->
              IF depth < 1 THEN Stopped(fr, "invalid")
              ELSE [Advance(fr, instr, fr.pc, Pop(fr.stack, 1))
                      EXCEPT !.status = "returned",
                             !.ret = Some(Top(fr.stack))]

\* The instructions that can follow position p.
Successors(instructions, p) ==
    LET op == instructions[p].opname IN
    IF op = "RETURN_VALUE" THEN {}
    ELSE IF op = "JUMP_ABSOLUTE"
    THEN {PositionOf(instructions, instructions[p].jump_to)}
    ELSE IF op \in {"POP_JUMP_IF_FALSE", "FOR_ITER"}
    THEN {p + 1, PositionOf(instructions, instructions[p].jump_to)}
    ELSE {p + 1}

\* The positions reachable from seen without passing a store to name.
RECURSIVE ReachUnstored(_, _, _)
ReachUnstored(instructions, name, seen) ==
    LET more == UNION {Successors(instructions, p) :
                         p \in {q \in seen :
                                  ~(/\ instructions[q].opname = "STORE_FAST"
                                    /\ instructions[q].name = name)}}
    IN IF more \subseteq seen THEN seen
       ELSE ReachUnstored(instructions, name, seen \cup more)

\* analysis_inputs(instructions, index): the locals that some path from
\* index reads before it stores them.
analysis_inputs(instructions, index) ==
    {name \in {instructions[p].name : p \in 1..Len(instructions)} :
       \E p \in ReachUnstored(instructions, name, {index}) :
          /\ instructions[p].opname = "LOAD_FAST"
          /\ instructions[p].name = name}

\* The orders in which a set can be iterated.
Orders(S) ==
    {order \in [1..Cardinality(S) -> S] :
       \A j, k \in 1..Cardinality(S) : order[j] = order[k] => j = k}

StackArgNames ==
    <<"__stack_arg0", "__stack_arg1", "__stack_arg2", "__stack_arg3",
      "__stack_arg4", "__stack_arg5">>
StackArgs(stack_size) == SubSeq(StackArgNames, 1, stack_size)

\* The names of varnames that are not among inputs, in their order.
RECURSIVE NotIn(_, _)
NotIn(varnames, inputs) ==
    IF varnames = <<>> THEN <<>>
    ELSE (IF varnames[1] \in Range(inputs) THEN <<>> ELSE <<varnames[1]>>)
         \o NotIn(Tail(varnames), inputs)

\* self._code_options after lines 207-219: co_argcount, co_varnames and
\* co_name are set, every other attribute stays that of the original code.
ResumeCodeOptions(code, inputs, stack_size) ==
    [code EXCEPT
       !.co_argcount = Len(inputs) + stack_size,
       !.co_varnames = StackArgs(stack_size) \o inputs
                          \o NotIn(code.co_varnames, inputs),
       !.co_name = "resume"]

\* self._instructions after lines 198-205: the loads of the stack
\* arguments, the jump to instruction index, the original instructions.
ResumeInstructions(instructions, index, stack_size) ==
    [i \in 1..stack_size |->
        Instr("LOAD_FAST", StackArgNames[i], 0, 0, 0 - i)]
    \o <<Instr("JUMP_ABSOLUTE", "", 0, instructions[index].id, 0)>>
    \o instructions

\* types.FunctionType(new_code, self._f_globals, fn_name): no closure is
\* passed, which code with free variables does not accept.
FunctionType(code) ==
    IF code.co_freevars # <<>> THEN "TypeError" ELSE ""

\* gen_resume_fn_at(index, stack_size), with inputs iterated in order.
gen_resume_fn_at(code, instructions, index, stack_size, inputs) ==
    IF instructions[index].opname = "RETURN_VALUE"
    THEN [fn |-> None, inputs |-> <<>>, raised |-> ""]
    ELSE LET code_options == ResumeCodeOptions(code, inputs, stack_size)
         IN [fn |-> Some([code |-> code_options,
                          instructions |->
                             ResumeInstructions(instructions, index,
                                                stack_size)]),
             inputs |-> inputs,
             raised |-> FunctionType(code_options)]

InitResume ==
    /\ origin_code = None
    /\ origin_frame = None
    /\ break_point = None
    /\ resume_fn = None
    /\ resume_frame = None

\* The original function is called: its positional parameters
\* positionally, a keyword-only one by keyword.
CallOrigin ==
    /\ origin_code = None
    /\ \E code \in CodeOptions, instructions \in OriginInstructions,
          given \in OriginArgs :
          /\ origin_code' = Some([code |-> code,
                                  instructions |-> instructions])
          /\ origin_frame' = Some(CallFunction(code,
                [k \in 1..code.co_argcount |-> given[code.co_varnames[k]]],
                [n \in {code.co_varnames[k] :
                          k \in (code.co_argcount + 1)..
                                (code.co_argcount + code.co_kwonlyargcount)}
                   |-> given[n]],
                [n \in Range(code.co_freevars) |-> given[n]]))
    /\ UNCHANGED <<break_point, resume_fn, resume_frame>>
    /\ UNCHANGED notRs

\* The original function executes one instruction.
StepOrigin ==
    /\ origin_frame # None
    /\ origin_frame[1].status = "running"
    /\ origin_frame' = Some(Execute(origin_code[1].instructions,
                                    origin_frame[1]))
    /\ UNCHANGED <<origin_code, break_point, resume_fn, resume_frame>>
    /\ UNCHANGED notRs

\* Tracing stops where the original function stands: the stack and the
\* live locals are captured and gen_resume_fn_at is called.
GenResumeFnAt ==
    /\ origin_frame # None
    /\ origin_frame[1].status = "running"
    /\ break_point = None
    /\ LET fr == origin_frame[1]
           instructions == origin_code[1].instructions
           live == analysis_inputs(instructions, fr.pc)
       IN /\ \A n \in live : fr.f_locals[n] # None
          /\ \E inputs \in Orders(live) :
                LET made == gen_resume_fn_at(origin_code[1].code,
                               instructions, fr.pc, Len(fr.stack), inputs)
                IN /\ resume_fn' = Some(made)
                   /\ break_point' = Some(
                         [index |-> fr.pc, stack |-> fr.stack,
                          inputs |-> [k \in 1..Len(made.inputs) |->
                                         fr.f_locals[made.inputs[k]][1]],
                          executed |-> Len(fr.executed)])
    /\ UNCHANGED <<origin_code, origin_frame, resume_frame>>
    /\ UNCHANGED notRs

\* The resume function is called with the captured stack values and the
\* captured values of the inputs, positionally.
CallResume ==
    /\ resume_fn # None
    /\ resume_fn[1].fn # None
    /\ resume_fn[1].raised = ""
    /\ resume_frame = None
    /\ origin_frame[1].status # "running"
    /\ resume_frame' = Some(CallFunction(resume_fn[1].fn[1].code,
          break_point[1].stack \o break_point[1].inputs, <<>>,
          origin_frame[1].cells))
    /\ UNCHANGED <<origin_code, origin_frame, break_point, resume_fn>>
    /\ UNCHANGED notRs

\* The resume function executes one instruction.
StepResume ==
    /\ resume_frame # None
    /\ resume_frame[1].status = "running"
    /\ resume_frame' = Some(Execute(resume_fn[1].fn[1].instructions,
                                    resume_frame[1]))
    /\ UNCHANGED <<origin_code, origin_frame, break_point, resume_fn>>
    /\ UNCHANGED notRs

NextResume ==
    CallOrigin \/ StepOrigin \/ GenResumeFnAt \/ CallResume \/ StepResume

(***************************************************************************)
(* PyCodeGen.gen_loop_body_between, gen_for_loop_fn_between and _gen_fn    *)
(***************************************************************************)

\* Most statements in the body of an original for loop.
MaxStatements == 2

\* The constants None, False and True as the interpreter's values (bool is
\* a subclass of int: False is 0 and True is 1).
PyNone == -1
PyFalse == 0
PyTrue == 1

\* The statements of a loop body:  c = c + i,  if b: break,
\* if a: continue.
StatementKinds == {"add", "break_if", "continue_if"}

\* The instructions of one statement placed at position at, in a loop whose
\* FOR_ITER is for_iter and whose break leaves to break_to.
StatementInstrs(kind, at, for_iter, break_to) ==
    IF kind = "add"
    THEN <<Instr("LOAD_FAST", "c", 0, 0, at),
           Instr("LOAD_FAST", "i", 0, 0, at + 1),
           Instr("BINARY_ADD", "", 0, 0, at + 2),
           Instr("STORE_FAST", "c", 0, 0, at + 3)>>
    ELSE IF kind = "break_if"
    THEN <<Instr("LOAD_FAST", "b", 0, 0, at),
           Instr("POP_JUMP_IF_FALSE", "", 0, at + 4, at + 1),
           Instr("POP_TOP", "", 0, 0, at + 2),
           Instr("JUMP_ABSOLUTE", "", 0, break_to, at + 3)>>
    ELSE <<Instr("LOAD_FAST", "a", 0, 0, at),
           Instr("POP_JUMP_IF_FALSE", "", 0, at + 3, at + 1),
           Instr("JUMP_ABSOLUTE", "", 0, for_iter, at + 2)>>

StatementLen(kind) == IF kind = "continue_if" THEN 3 ELSE 4

RECURSIVE BodyLength(_)
BodyLength(kinds) ==
    IF kinds = <<>> THEN 0
    ELSE StatementLen(kinds[1]) + BodyLength(Tail(kinds))

RECURSIVE StatementsAt(_, _, _, _)
StatementsAt(kinds, at, for_iter, break_to) ==
    IF kinds = <<>> THEN <<>>
    ELSE StatementInstrs(kinds[1], at, for_iter, break_to)
         \o StatementsAt(Tail(kinds), at + StatementLen(kinds[1]),
                         for_iter, break_to)

\* The position of FOR_ITER, of the first body instruction after the store
\* of the item, and of the instruction FOR_ITER leaves to.
ForIterAt == 3
LoopStart == 5
LoopEnd(kinds) == LoopStart + BodyLength(kinds) + 1

\* get_instructions(code) of
\*     for i in it: <statements>
\*     [else: c = 1]
\*     return c
\* as compiled for CPython 3.8: a break leaves to the instruction after
\* the else block, FOR_ITER to the else block.
LoopInstructions(kinds, has_else) ==
    LET out_loop == LoopEnd(kinds)
        after == IF has_else THEN out_loop + 2 ELSE out_loop
    IN <<Instr("LOAD_FAST", "it", 0, 0, 1),
         Instr("GET_ITER", "", 0, 0, 2),
         Instr("FOR_ITER", "", 0, out_loop, ForIterAt),
         Instr("STORE_FAST", "i", 0, 0, 4)>>
       \o StatementsAt(kinds, LoopStart, ForIterAt, after)
       \o <<Instr("JUMP_ABSOLUTE", "", 0, ForIterAt, out_loop - 1)>>
       \o (IF has_else
           THEN <<Instr("LOAD_CONST", "", 1, 0, out_loop),
                  Instr("STORE_FAST", "c", 0, 0, out_loop + 1)>>
           ELSE <<>>)
       \o <<Instr("LOAD_FAST", "c", 0, 0, after),
            Instr("RETURN_VALUE", "", 0, 0, after + 1)>>

LoopBodies ==
    UNION {[1..n -> StatementKinds] : n \in 1..MaxStatements}

\* The code attributes of  def f(it, a, b, c)  and  def f(it, a, b, *, c).
LoopCodeOptions ==
    {[co_argcount |-> 4, co_kwonlyargcount |-> 0, co_freevars |-> <<>>,
      co_varnames |-> <<"it", "a", "b", "c", "i">>, co_name |-> "f"],
     [co_argcount |-> 3, co_kwonlyargcount |-> 1, co_freevars |-> <<>>,
      co_varnames |-> <<"it", "a", "b", "c", "i">>, co_name |-> "f"]}

\* _add_instr: the new instruction is appended; it is identified by the
\* negated position it is appended at.
add_instr(instructions, opname, name, const, jump_to) ==
    Append(instructions,
           Instr(opname, name, const, jump_to, 0 - (Len(instructions) + 1)))

\* The rewiring with the two NOPs taken for each other.
Rewired_swapped(instructions, for_iter, nop_for_continue, out_loop, nop_for_break) ==
    [k \in 1..Len(instructions) |->
        [instructions[k] EXCEPT !.jump_to =
            IF instructions[k].jump_to = for_iter THEN nop_for_break
            ELSE IF instructions[k].jump_to = out_loop THEN nop_for_continue
            ELSE instructions[k].jump_to]]

\* for instr in self._instructions: a jump to for_iter goes to
\* nop_for_continue, then a jump to out_loop goes to nop_for_break.
Rewired(instructions, for_iter, nop_for_continue, out_loop, nop_for_break) ==
    [k \in 1..Len(instructions) |->
        LET first == IF instructions[k].jump_to = for_iter
                     THEN nop_for_continue ELSE instructions[k].jump_to
        IN [instructions[k] EXCEPT !.jump_to =
               IF first = out_loop THEN nop_for_break ELSE first]]

\* The loads of _gen_fn.
RECURSIVE LoadInputs(_, _)
LoadInputs(instructions, inputs) ==
    IF inputs = <<>> THEN instructions
    ELSE LoadInputs(add_instr(instructions, "LOAD_FAST", inputs[1], 0, 0),
                    Tail(inputs))

\* _gen_fn(inputs): the inputs are loaded, built into a tuple and returned;
\* co_argcount, co_varnames and co_name are set, every other attribute
\* stays that of the original code.
gen_fn(code, instructions, inputs) ==
    LET loaded == LoadInputs(instructions, inputs)
        built == add_instr(loaded, "BUILD_TUPLE", "", Len(inputs), 0)
        code_options ==
           [code EXCEPT
              !.co_argcount = Len(inputs),
              !.co_varnames = inputs \o NotIn(code.co_varnames, inputs),
              !.co_name = "resume"]
    IN [code |-> code_options,
        instructions |-> add_instr(built, "RETURN_VALUE", "", 0, 0),
        raised |-> FunctionType(code_options)]

\* gen_loop_body_between(for_iter, start, end), with the live locals
\* iterated in the order live.
gen_loop_body_between(code, origin_instrs, for_iter, start, end, live) ==
    LET inputs == live \o <<"_break_flag">>
        placeholder == add_instr(<<>>, "LOAD_CONST", "", PyNone, 0)
        body == placeholder \o SubSeq(origin_instrs, start, end - 1)
        with_break_nop == add_instr(body, "NOP", "", 0, 0)
        nop_for_break == with_break_nop[Len(with_break_nop)].id
        cleared ==
           add_instr(
              add_instr(
                 add_instr(with_break_nop, "LOAD_CONST", "", PyFalse, 0),
                 "STORE_FAST", "_break_flag", 0, 0),
              "LOAD_CONST", "", PyNone, 0)
        with_continue_nop == add_instr(cleared, "NOP", "", 0, 0)
        nop_for_continue == with_continue_nop[Len(with_continue_nop)].id
        popped == add_instr(with_continue_nop, "POP_TOP", "", 0, 0)
        out_loop == origin_instrs[for_iter].jump_to
    IN [fn |-> gen_fn(code,
                  Rewired(popped, origin_instrs[for_iter].id,
                          nop_for_continue, out_loop, nop_for_break),
                  inputs),
        inputs |-> inputs, kind |-> "loop_body",
        nop_for_break |-> nop_for_break,
        nop_for_continue |-> nop_for_continue]

\* gen_for_loop_fn_between(iterator, start, end), with the live locals
\* iterated in the order live; iterator_id is iterator.id.
gen_for_loop_fn_between(code, origin_instrs, iterator_id, start, end, live) ==
    LET inputs == live \o <<iterator_id>>
        loaded == add_instr(<<>>, "LOAD_FAST", iterator_id, 0, 0)
        body == loaded \o SubSeq(origin_instrs, start, end - 1)
        for_iter == origin_instrs[start].id
        out_loop_instr == origin_instrs[start].jump_to
        with_continue_nop == add_instr(body, "NOP", "", 0, 0)
        nop_for_continue == with_continue_nop[Len(with_continue_nop)].id
        with_jump == add_instr(with_continue_nop, "JUMP_ABSOLUTE", "", 0,
                               for_iter)
        jump == Len(with_jump)
        with_break_nop == add_instr(with_jump, "NOP", "", 0, 0)
        nop_for_break == with_break_nop[Len(with_break_nop)].id
        rewired == Rewired(with_break_nop, for_iter, nop_for_continue,
                           out_loop_instr, nop_for_break)
    IN [fn |-> gen_fn(code,
                  [rewired EXCEPT ![jump].jump_to = for_iter], inputs),
        inputs |-> inputs, kind |-> "for_loop",
        nop_for_break |-> nop_for_break,
        nop_for_continue |-> nop_for_continue]

InitLoop ==
    /\ loop_origin = None
    /\ loop_fn = None
    /\ loop_args = None
    /\ loop_frame = None

\* The tracer asks for the body of a for loop as a function: start is the
\* first instruction after the store of the item, end the instruction
\* FOR_ITER leaves to.
GenLoopBodyBetween ==
    /\ loop_fn = None
    /\ \E code \in LoopCodeOptions, kinds \in LoopBodies,
          has_else \in BOOLEAN :
          LET origin_instrs == LoopInstructions(kinds, has_else) IN
          \E live \in Orders(analysis_inputs(origin_instrs, LoopStart)) :
             /\ loop_origin' = Some([code |-> code,
                                     instructions |-> origin_instrs])
             /\ loop_fn' = Some(gen_loop_body_between(code, origin_instrs,
                                   ForIterAt, LoopStart, LoopEnd(kinds),
                                   live))
    /\ UNCHANGED <<loop_args, loop_frame>>
    /\ UNCHANGED notLp

\* The tracer asks for the whole for loop as a function: start is the
\* FOR_ITER.
GenForLoopFnBetween ==
    /\ loop_fn = None
    /\ \E code \in LoopCodeOptions, kinds \in LoopBodies,
          has_else \in BOOLEAN :
          LET origin_instrs == LoopInstructions(kinds, has_else) IN
          \E live \in Orders(analysis_inputs(origin_instrs, ForIterAt)) :
             /\ loop_origin' = Some([code |-> code,
                                     instructions |-> origin_instrs])
             /\ loop_fn' = Some(gen_for_loop_fn_between(code, origin_instrs,
                                   "iterator", ForIterAt, LoopEnd(kinds),
                                   live))
    /\ UNCHANGED <<loop_args, loop_frame>>
    /\ UNCHANGED notLp

\* The values a loop function can be called with.
LoopArgs ==
    {[n \in {"a", "b", "c", "i", "it", "_break_flag", "iterator"} |->
         IF n = "a" THEN a ELSE IF n = "b" THEN b
         ELSE IF n = "_break_flag" THEN flag
         ELSE IF n \in {"iterator", "it"} THEN items
         ELSE IF n = "c" THEN 3 ELSE 2] :
       a \in {0, 1}, b \in {0, 1}, flag \in {PyFalse, PyTrue},
       items \in {<<>>, <<4, 5>>}}

\* The function is called with the values of its inputs, positionally.
CallLoopFn ==
    /\ loop_fn # None
    /\ loop_fn[1].fn.raised = ""
    /\ loop_frame = None
    /\ \E given \in LoopArgs :
          /\ loop_fn[1].kind = "loop_body" => given["iterator"] = <<>>
          /\ loop_args' = Some(given)
          /\ loop_frame' = Some(CallFunction(loop_fn[1].fn.code,
                [k \in 1..Len(loop_fn[1].inputs) |->
                    given[loop_fn[1].inputs[k]]],
                <<>>, <<>>))
    /\ UNCHANGED <<loop_origin, loop_fn>>
    /\ UNCHANGED notLp

\* The function executes one instruction.
StepLoopFn ==
    /\ loop_frame # None
    /\ loop_frame[1].status = "running"
    /\ loop_frame' = Some(Execute(loop_fn[1].fn.instructions,
                                  loop_frame[1]))
    /\ UNCHANGED <<loop_origin, loop_fn, loop_args>>
    /\ UNCHANGED notLp

NextLoop ==
    GenLoopBodyBetween \/ GenForLoopFnBetween \/ CallLoopFn \/ StepLoopFn

(***************************************************************************)
(* PyCodeGen.gen_load_const, gen_load_global and gen_load_object           *)
(***************************************************************************)

\* Most loads emitted on one PyCodeGen.
MaxEmitted == 3

\* Python objects: id is the identity, type and num the value.  Objects
\* with the same num are equal (1 == True, 0 == False).
PyObject(id, type, num) == [id |-> id, type |-> type, num |-> num]
IntOne == PyObject(1, "int", 1)
BoolTrue == PyObject(2, "bool", 1)
IntZero == PyObject(3, "int", 0)
BoolFalse == PyObject(4, "bool", 0)
PyObjects == {IntOne, BoolTrue, IntZero, BoolFalse}
NoObject == PyObject(0, "", 0)
GlobalNames == {"fn_a", "fn_b"}

PyEq(x, y) == x.num = y.num
PyIs(x, y) == x.id = y.id

\* list_contain_by_id(lst, value)
list_contain_by_id(lst, value) ==
    \E k \in 1..Len(lst) : PyIs(lst[k], value)

\* list_find_index_by_id(lst, value): the first index, counted from 0.
list_find_index_by_id(lst, value) ==
    (CHOOSE k \in 1..Len(lst) :
        /\ PyIs(lst[k], value)
        /\ \A j \in 1..(k - 1) : ~PyIs(lst[j], value)) - 1

\* lst.index(value), counted from 0.
list_index(lst, value) ==
    (CHOOSE k \in 1..Len(lst) :
        /\ lst[k] = value
        /\ \A j \in 1..(k - 1) : lst[j] # value) - 1

Load(opname, arg, name, obj) ==
    [opname |-> opname, arg |-> arg, name |-> name, obj |-> obj]

\* A gen_load_const that finds the constant with `in` and list.index,
\* that is by equality.
gen_load_const_by_equality(consts, value) ==
    LET present == \E k \in 1..Len(consts) : PyEq(consts[k], value)
        pool == IF present THEN consts ELSE Append(consts, value)
        idx == (CHOOSE k \in 1..Len(pool) :
                   /\ PyEq(pool[k], value)
                   /\ \A j \in 1..(k - 1) : ~PyEq(pool[j], value)) - 1
    IN [co_consts |-> pool, instr |-> Load("LOAD_CONST", idx, "", value)]

\* gen_load_const(value): the new pool and the instruction.
gen_load_const(consts, value) ==
    LET pool == IF ~list_contain_by_id(consts, value)
                THEN Append(consts, value) ELSE consts
        idx == list_find_index_by_id(pool, value)
    IN [co_consts |-> pool, instr |-> Load("LOAD_CONST", idx, "", value)]

InitCodeGen ==
    /\ co_consts = <<IntZero>>
    /\ co_names = <<>>
    /\ f_globals = <<>>
    /\ objname_map = <<>>
    /\ emitted = <<>>

GenLoadConst ==
    /\ Len(emitted) < MaxEmitted
    /\ \E value \in PyObjects :
          LET done == gen_load_const(co_consts, value)
          IN /\ co_consts' = done.co_consts
             /\ emitted' = Append(emitted, done.instr)
    /\ UNCHANGED <<co_names, f_globals, objname_map>>
    /\ UNCHANGED notCg

\* gen_load_global(name)
GenLoadGlobal ==
    /\ Len(emitted) < MaxEmitted
    /\ \E name \in GlobalNames :
          LET names == IF name \notin Range(co_names)
                       THEN Append(co_names, name) ELSE co_names
          IN /\ co_names' = names
             /\ emitted' = Append(emitted,
                   Load("LOAD_GLOBAL", list_index(names, name), name,
                        NoObject))
    /\ UNCHANGED <<co_consts, f_globals, objname_map>>
    /\ UNCHANGED notCg

\* gen_load_object(obj, obj_name); the emitted load is recorded with the
\* object of the call.
GenLoadObject ==
    /\ Len(emitted) < MaxEmitted
    /\ \E obj \in PyObjects, obj_name \in GlobalNames :
          LET new == obj_name \notin DOMAIN objname_map
              map == IF new
                     THEN (obj_name :> Len(co_names)) @@ objname_map
                     ELSE objname_map
          IN /\ f_globals' = IF new
                             THEN [n \in DOMAIN f_globals \cup {obj_name} |->
                                     IF n = obj_name THEN obj
                                     ELSE f_globals[n]]
                             ELSE f_globals
             /\ co_names' = IF new THEN Append(co_names, obj_name)
                            ELSE co_names
             /\ objname_map' = map
             /\ emitted' = Append(emitted,
                   Load("LOAD_GLOBAL", map[obj_name], obj_name, obj))
    /\ UNCHANGED co_consts
    /\ UNCHANGED notCg

NextCodeGen == GenLoadConst \/ GenLoadGlobal \/ GenLoadObject

(***************************************************************************)
(* Claims about modify_lnotab and assemble                                 *)
(***************************************************************************)

\* A chain of (byte delta, line delta) entries with every component at most
\* 127, whose byte deltas sum to byte_offset and line deltas to line_offset.
ExactChain(ret, byte_offset, line_offset) ==
    /\ \A k \in 1..Len(ret) : ret[k] <= 127
    /\ SumSeq(EveryOther(ret, 1)) = byte_offset
    /\ SumSeq(EveryOther(ret, 0)) = line_offset

\* The line table read back as CPython reads co_lnotab: after each entry, the
\* byte offset and the line reached (a line delta of 128 or more is negative).
RECURSIVE DecodeLnotab(_, _, _)
DecodeLnotab(table, addr, line) ==
    IF Len(table) < 2 THEN <<>>
    ELSE LET a == addr + table[1]
             l == line + (IF table[2] >= 128 THEN table[2] - 256 ELSE table[2])
         IN <<[offset |-> a, line |-> l]>>
            \o DecodeLnotab(SubSeq(table, 3, Len(table)), a, l)

\* C10: for every byte_offset >= 0 and line_offset >= 0, modify_lnotab returns
\* a chain of entries with every component at most 127 whose byte deltas sum
\* to byte_offset and whose line deltas sum to line_offset, so that decoding
\* the line table assemble produced recovers the byte offset and the source
\* line of every line-starting instruction.
C10_LnotabChainIsExact ==
    /\ ml_call # None =>
          ExactChain(ml_call[1].ret, ml_call[1].byte_offset,
                     ml_call[1].line_offset)
    /\ (/\ asm_pc \in {"returned", "ValueError"}
        /\ \A k \in 1..Len(line_starts) : line_starts[k].line_offset >= 0)
       => /\ asm_pc = "returned"
          /\ LET decoded == DecodeLnotab(lnotab, 0, asm_firstlineno)
             IN \A k \in 1..Len(line_starts) :
                   \E j \in 1..Len(decoded) :
                      /\ decoded[j].offset = line_starts[k].offset
                      /\ decoded[j].line = line_starts[k].line

(***************************************************************************)
(* Claims about stacksize                                                  *)
(***************************************************************************)

\* C3: stacksize fails with a fatal error for every instruction sequence in
\* which some control-flow path reaches a program point with a negative
\* operand-stack depth, and returns without error for every sequence in which
\* all paths keep the depth >= 0 at every program point.
C3_StacksizeFailsIffNegativeDepth ==
    ss_pc \in {"returned", "AssertionError"} =>
        (ss_pc = "AssertionError" <=> PathNegative(ss_instructions))

\* The first half of C3 alone: a sequence with a path to a negative depth
\* never makes stacksize return a number.
StacksizeNegativeDepthIsFatal ==
    (ss_pc = "returned") => ~PathNegative(ss_instructions)

\* The second half of C3 alone.
StacksizeBalancedReturns ==
    (ss_pc = "AssertionError") => PathNegative(ss_instructions)

(***************************************************************************)
(* Claims about TensorVariable and DygraphTracerVariable                   *)
(***************************************************************************)

VarIds == 1..Len(variables)
IsTensor(i) == variables[i].cls = "TensorVariable"
HasGuard(i) == guard_out[i] # None /\ guard_out[i][1].raised = ""
\* The guards made for a tensor that was read from a frame local.
FrameGuards ==
    {i \in VarIds : /\ IsTensor(i)
                    /\ variables[i].tracker.kind = "LocalTracker"
                    /\ HasGuard(i)}
LiveBinding(i) == frame[variables[i].tracker.name]

\* C6: the guard make_stringify_guard produces for a tensor with a
\* frame-derivable tracker evaluates to true when the tracked frame binding
\* is unchanged since trace time, and to false whenever the shape or the
\* dtype of the re-read binding differs from the metadata snapshotted at
\* trace time.
C6_GuardTracksShapeAndDtype ==
    \A i \in FrameGuards :
       /\ LiveBinding(i) = variables[i].value[1]
             => EvalGuard(guard_out[i][1], frame)
       /\ (\/ LiveBinding(i).shape # variables[i].meta.shape
           \/ LiveBinding(i).dtype # variables[i].meta.dtype)
             => ~EvalGuard(guard_out[i][1], frame)

\* A guard made for a frame tensor whose binding has since changed shape,
\* and which evaluates to false.
C6_Witness ==
    \E i \in FrameGuards :
       /\ LiveBinding(i).shape # variables[i].meta.shape
       /\ ~EvalGuard(guard_out[i][1], frame)

\* C7: reading .shape on a TensorVariable raises a graph break if and only
\* if its metadata shape contains an unresolved dimension (-1).
C7_ShapeBreaksIffUnresolvedDim ==
    \A i \in VarIds :
       shape_out[i] # "unread" =>
          (shape_out[i] = "BreakGraphError"
             <=> \E k \in 1..Len(variables[i].meta.shape) :
                    variables[i].meta.shape[k] = -1)

\* One read of .shape that broke the graph and one that returned.
C7_Witness ==
    \E i, j \in VarIds :
       shape_out[i] = "BreakGraphError" /\ shape_out[j] = "returned"

\* C8, as claimed: whenever reading .shape ends in a graph break, the tensor
\* has been registered as a globally guarded variable.
C8_BreakRegistersGuarded ==
    \A i \in VarIds : shape_out[i] = "BreakGraphError" => i \in guarded

\* C8, amended: reading .shape registers the tensor as globally guarded
\* exactly when the read returns the shape; a read that ends in a graph
\* break registers nothing.
C8_ReturnRegistersGuarded ==
    \A i \in VarIds :
       /\ shape_out[i] = "returned" => i \in guarded
       /\ shape_out[i] = "BreakGraphError" => i \notin guarded

\* A read that broke the graph without registering, beside one that
\* returned and registered.
C8_Witness ==
    \E i, j \in VarIds :
       /\ shape_out[i] = "BreakGraphError" /\ i \notin guarded
       /\ shape_out[j] = "returned" /\ j \in guarded

\* C9: make_stringify_guard on a TensorVariable or a DygraphTracerVariable
\* whose tracker is a DummyTracker always fails and never returns a guard;
\* on a DygraphTracerVariable with any other tracker it returns the
\* trivially true guard with no free variables.
C9_DummyTrackerGuardIsFatal ==
    \A i \in VarIds :
       guard_out[i] # None =>
          /\ variables[i].tracker.kind = "DummyTracker"
                => guard_out[i][1].raised = "AssertionError"
          /\ (~IsTensor(i) /\ variables[i].tracker.kind # "DummyTracker")
                => /\ guard_out[i][1].raised = ""
                   /\ guard_out[i][1].call = "True"
                   /\ guard_out[i][1].free_vars = {}
                   /\ EvalGuard(guard_out[i][1], frame)

\* A dummy-tracked tensor whose guard request failed, beside a tracer
\* variable with a frame tracker whose guard is the trivial one.
C9_Witness ==
    \E i, j \in VarIds :
       /\ IsTensor(i) /\ variables[i].tracker.kind = "DummyTracker"
       /\ guard_out[i] # None /\ guard_out[i][1].raised = "AssertionError"
       /\ ~IsTensor(j) /\ HasGuard(j) /\ guard_out[j][1].call = "True"

\* The operations that index a tensor.
Indexings ==
    {k \in 1..Len(operations) :
        operations[k].op \in {"__getitem__", "__setitem__"}}

\* C17: no operation on a TensorVariable changes its meta or its var_name,
\* and every __getitem__ and __setitem__ adds exactly one tensor-method call
\* of that name, on the receiver, to the Function Graph and returns a tensor
\* variable other than the receiver.
C17_OperationsLeaveReceiver ==
    /\ [](\A k \in Indexings :
            LET o == operations[k] IN
            /\ Len(graph_calls) > o.calls
            /\ graph_calls[o.calls + 1].kind = "call_tensor_method"
            /\ graph_calls[o.calls + 1].name = o.op
            /\ graph_calls[o.calls + 1].self = o.self
            /\ o.result.kind = "TensorVariable"
            /\ o.result.ints # <<o.self>>)
    /\ [][/\ Len(variables') >= Len(variables)
          /\ \A i \in 1..Len(variables) :
                variables[i].cls = "TensorVariable"
                => /\ variables'[i].meta = variables[i].meta
                   /\ variables'[i].var_name = variables[i].var_name
          /\ operations' # operations
             => /\ Len(graph_calls') - Len(graph_calls)
                      = Len(variables') - Len(variables)
                /\ Len(graph_calls') - Len(graph_calls) \in {0, 1}
                /\ operations'[Len(operations')].op
                      \in {"__getitem__", "__setitem__"}
                   => Len(graph_calls') = Len(graph_calls) + 1]_vars

\* An indexed assignment whose result has other metadata than its receiver,
\* on a variable that was also read and guarded.
C17_Witness ==
    \E k \in Indexings :
       LET o == operations[k] IN
       /\ o.op = "__setitem__"
       /\ variables[o.result.ints[1]].meta # variables[o.self].meta
       /\ variables[o.self].tracker # DummyTracker
       /\ guard_out[o.self] # None

(***************************************************************************)
(* Claims about CompileSIRCache                                            *)
(***************************************************************************)

\* The requests that returned a callable.
RequestIds == {k \in 1..Len(requests) : ~requests[k].raised}
RequestedSIRs == {requests[k].sir : k \in RequestIds}

\* C4: after any sequence of compile requests the cache holds exactly one
\* entry per structurally distinct SIR: requests with the same SIR receive
\* the same compiled callable and value_fn runs once for them, while a
\* request whose SIR differs gets another entry and a different callable.
C4_OneEntryPerDistinctSIR ==
    /\ Cardinality(DOMAIN cache) = Cardinality(RequestedSIRs)
    /\ Len(wrappers) = Cardinality(RequestedSIRs)
    /\ \A j, k \in RequestIds :
          (requests[j].sir = requests[k].sir)
             <=> (requests[j].ret = requests[k].ret)

ResumeRequested ==
    /\ resume_fn # None
    /\ resume_fn[1].fn # None
    /\ origin_frame[1].status = "returned"

\* The original instructions a frame executed, from its n+1st step on.
RECURSIVE OriginalOnly(_)
OriginalOnly(ids) ==
    IF ids = <<>> THEN <<>>
    ELSE (IF ids[1] > 0 THEN <<ids[1]>> ELSE <<>>) \o OriginalOnly(Tail(ids))
ExecutedFrom(fr, n) == SubSeq(fr.executed, n + 1, Len(fr.executed))

\* C2: for every original instruction sequence and every break index that
\* is not a RETURN_VALUE, gen_resume_fn_at(index, stack_size) produces a
\* function which, called with the stack values and the live-local values
\* the original execution had at that index, enters the original
\* instructions at index with that operand stack, executes exactly the
\* instructions the original executes from there on, and returns the value
\* the original function returns.
C2_ResumeFnContinuesOrigin ==
    ResumeRequested =>
       /\ resume_fn[1].raised = ""
       /\ resume_frame # None =>
             LET fr == resume_frame[1]
                 bp == break_point[1]
                 prologue == Len(bp.stack) + 1
             IN /\ fr.status \in {"running", "returned"}
                /\ Len(fr.executed) = prologue =>
                      /\ fr.stack = bp.stack
                      /\ fr.pc = prologue + bp.index
                /\ fr.status = "returned" =>
                      /\ fr.ret = origin_frame[1].ret
                      /\ OriginalOnly(fr.executed)
                           = ExecutedFrom(origin_frame[1], bp.executed)

NoRepeats(names) ==
    \A j, k \in 1..Len(names) : names[j] = names[k] => j = k

\* C11: the code built by gen_resume_fn_at(index, stack_size) for an index
\* that is not a RETURN_VALUE has co_argcount = stack_size + the number of
\* inputs; its first co_argcount names are __stack_arg0 ..
\* __stack_arg(stack_size-1) followed by the returned inputs, each once and
\* in the returned order; the remaining original names follow, and no name
\* occurs twice in co_varnames.
C11_ResumeCodeParameters ==
    (resume_fn # None /\ resume_fn[1].fn # None) =>
       LET made == resume_fn[1].fn[1].code
           inputs == resume_fn[1].inputs
           stack_size == Len(break_point[1].stack)
           origin == origin_code[1].code
       IN /\ made.co_argcount = stack_size + Len(inputs)
          /\ SubSeq(made.co_varnames, 1, made.co_argcount)
                = StackArgs(stack_size) \o inputs
          /\ NoRepeats(inputs)
          /\ SubSeq(made.co_varnames, made.co_argcount + 1,
                    Len(made.co_varnames))
                = NotIn(origin.co_varnames, inputs)
          /\ NoRepeats(made.co_varnames)

\* The traced execution: the tracer has followed the original function up
\* to the break; at a RETURN_VALUE it returns the value on top of the
\* stack, elsewhere it calls the resume function and returns its result.
TracedDone ==
    /\ resume_fn # None
    /\ \/ resume_fn[1].fn = None
       \/ resume_fn[1].raised # ""
       \/ resume_frame # None /\ resume_frame[1].status # "running"
TracedOutcome ==
    IF resume_fn[1].fn = None
    THEN [status |-> "returned", ret |-> Some(Top(break_point[1].stack))]
    ELSE IF resume_fn[1].raised # ""
    THEN [status |-> resume_fn[1].raised, ret |-> None]
    ELSE [status |-> resume_frame[1].status, ret |-> resume_frame[1].ret]
DirectOutcome ==
    [status |-> origin_frame[1].status, ret |-> origin_frame[1].ret]

\* C1: for every traced function and every input, the execution through
\* the tracer, graph break and resume function included, ends as the direct
\* execution does and returns the same result; this includes functions that
\* use closure cells.
C1_TracedEqualsDirect ==
    (/\ origin_frame # None
     /\ origin_frame[1].status \notin {"running", "invalid"}
     /\ TracedDone)
       => TracedOutcome = DirectOutcome

(***************************************************************************)
(* Claims about the loop functions                                         *)
(***************************************************************************)

LoopFnInstrs == loop_fn[1].fn.instructions
LoopFnJumps ==
    {k \in 1..Len(LoopFnInstrs) :
       LoopFnInstrs[k].opname \in JumpOps}
\* The instruction FOR_ITER leaves to, in the original code.
OutLoop == loop_origin[1].instructions[ForIterAt].jump_to
\* The target a jump of the function had in the original code; 0 for an
\* instruction that _add_instr made.
OriginTarget(k) ==
    IF LoopFnInstrs[k].id > 0
    THEN loop_origin[1].instructions[LoopFnInstrs[k].id].jump_to ELSE 0

\* C12: a function made by gen_loop_body_between or gen_for_loop_fn_between
\* takes exactly the names of its returned inputs as positional parameters,
\* and when it returns through its epilogue it returns a tuple of
\* len(inputs) elements, the k-th being the final value of the local named
\* by the k-th input.
C12_LoopFnReturnsInputs ==
    loop_fn # None =>
       LET made == loop_fn[1].fn
           inputs == loop_fn[1].inputs
       IN /\ made.raised = ""
          /\ made.code.co_argcount = Len(inputs)
          /\ made.code.co_kwonlyargcount = 0
          /\ SubSeq(made.code.co_varnames, 1, Len(inputs)) = inputs
          /\ loop_frame # None =>
                /\ loop_frame[1].status # "TypeError"
                /\ loop_frame[1].status = "returned" =>
                      /\ Len(loop_frame[1].ret[1]) = Len(inputs)
                      /\ \A k \in 1..Len(inputs) :
                            Some(loop_frame[1].ret[1][k])
                               = loop_frame[1].f_locals[inputs[k]]

\* C13: in the instruction list of such a function every jump that went to
\* the FOR_ITER goes to the continue NOP and every jump that went to the
\* instruction FOR_ITER leaves to goes to the break NOP, except for the
\* JUMP_ABSOLUTE gen_for_loop_fn_between appends, which goes to the
\* FOR_ITER; no jump goes to an instruction outside the list, and the stack
\* depth at each NOP is the same on every path that reaches it.
C13_LoopFnJumpsRewired ==
    loop_fn # None =>
       /\ \A k \in LoopFnJumps :
             /\ OriginTarget(k) = ForIterAt
                   => LoopFnInstrs[k].jump_to = loop_fn[1].nop_for_continue
             /\ OriginTarget(k) = OutLoop
                   => LoopFnInstrs[k].jump_to = loop_fn[1].nop_for_break
             /\ LoopFnInstrs[k].jump_to = ForIterAt
                   => /\ loop_fn[1].kind = "for_loop"
                      /\ LoopFnInstrs[k].id < 0
                      /\ LoopFnInstrs[k].opname = "JUMP_ABSOLUTE"
             /\ InList(LoopFnInstrs, LoopFnInstrs[k].jump_to)
       /\ (loop_frame # None /\ loop_frame[1].status = "running") =>
             LET at == LoopFnInstrs[loop_frame[1].pc].id
                 depth == Len(loop_frame[1].stack)
             IN /\ at = loop_fn[1].nop_for_continue => depth = 1
                /\ at = loop_fn[1].nop_for_break => depth = 0

\* The last original instruction the function executed.
RECURSIVE LastOriginal(_)
LastOriginal(ids) ==
    IF ids = <<>> THEN 0
    ELSE IF ids[Len(ids)] > 0 THEN ids[Len(ids)]
    ELSE LastOriginal(SubSeq(ids, 1, Len(ids) - 1))
\* How the iteration left the body: the original target of its last jump.
LeftTo ==
    LET last == LastOriginal(loop_frame[1].executed)
    IN IF last = 0 THEN 0 ELSE loop_origin[1].instructions[last].jump_to
LoopBodyReturned ==
    /\ loop_fn # None /\ loop_fn[1].kind = "loop_body"
    /\ loop_frame # None /\ loop_frame[1].status = "returned"
ReturnedBreakFlag == loop_frame[1].ret[1][Len(loop_fn[1].inputs)]

\* C18: in the tuple the function of gen_loop_body_between returns, the
\* _break_flag element is False when the iteration left the body by a jump
\* to the instruction FOR_ITER leaves to (break), and is the value passed
\* in when it left by a jump to the FOR_ITER (end of body, continue).
C18_BreakFlag ==
    LoopBodyReturned =>
       /\ LeftTo = OutLoop => ReturnedBreakFlag = PyFalse
       /\ LeftTo = ForIterAt
             => ReturnedBreakFlag = loop_args[1]["_break_flag"]

\* An iteration called with _break_flag True that left through a break and
\* returned False for it.
C18_Witness ==
    /\ LoopBodyReturned
    /\ LeftTo = OutLoop
    /\ loop_args[1]["_break_flag"] = PyTrue
    /\ ReturnedBreakFlag = PyFalse

(***************************************************************************)
(* Claims about the emission primitives                                    *)
(***************************************************************************)

ConstLoads == {k \in 1..Len(emitted) : emitted[k].opname = "LOAD_CONST"}
ObjectLoads ==
    {k \in 1..Len(emitted) :
       emitted[k].opname = "LOAD_GLOBAL" /\ emitted[k].obj # NoObject}

\* C14: after any sequence of gen_load_const calls every emitted LOAD_CONST
\* has an arg i such that co_consts[i] is the very object of its call,
\* no object is in the pool twice, and a call leaves the existing entries at
\* their indices, appending at most the one new object; so 1 and True, and
\* 0 and False, lie in slots of their own.
C14_ConstsByIdentity ==
    /\ [](/\ \A k \in ConstLoads :
                co_consts[emitted[k].arg + 1] = emitted[k].obj
          /\ \A i, j \in 1..Len(co_consts) :
                PyIs(co_consts[i], co_consts[j]) => i = j)
    /\ [][/\ SubSeq(co_consts', 1, Len(co_consts)) = co_consts
          /\ Len(co_consts') <= Len(co_consts) + 1]_vars

\* 1 and True have both been loaded, each from a slot of its own.
C14_Witness ==
    \E i, j \in ConstLoads :
       /\ emitted[i].obj = IntOne /\ emitted[j].obj = BoolTrue
       /\ emitted[i].arg # emitted[j].arg
       /\ co_consts[emitted[j].arg + 1] = BoolTrue

\* C19: after any sequence of gen_load_object calls on one PyCodeGen, the
\* LOAD_GLOBAL emitted by gen_load_object(obj, obj_name) has an arg whose
\* co_names entry is obj_name, and f_globals[obj_name] is obj, also when
\* obj_name was used before with another object.
C19_LoadObjectLoadsObj ==
    \A k \in ObjectLoads :
       /\ co_names[emitted[k].arg + 1] = emitted[k].name
       /\ f_globals[emitted[k].name] = emitted[k].obj

\* C15: if value_fn raises, the error reaches the caller and the cache
\* stores no entry under that SIR's key, so the next request for an
\* identical SIR invokes value_fn again instead of returning a cached
\* failure.
C15_FailedCompileNotCached ==
    /\ \A k \in 1..Len(requests) :
          /\ (\A j \in 1..(k - 1) :
                 requests[j].key = requests[k].key => requests[j].raised)
                => requests[k].invoked
          /\ requests[k].raised => requests[k].ret = 0
    /\ \A key \in DOMAIN cache :
          \E j \in RequestIds :
             /\ requests[j].key = key
             /\ requests[j].ret = cache[key]
             /\ cache[key] \in 1..Len(wrappers)

\* A request that failed, followed by a request for the same SIR that
\* invoked value_fn again and got its callable.
C15_Witness ==
    \E j, k \in 1..Len(requests) :
       /\ j < k
       /\ requests[j].sir = requests[k].sir
       /\ requests[j].raised
       /\ requests[k].invoked /\ ~requests[k].raised
       /\ cache[requests[k].key] = requests[k].ret

\* The last call of wrapper w, 0 if it was never called.
LastCall(w) ==
    IF \E k \in 1..Len(calls) : calls[k].wrapper = w
    THEN CHOOSE k \in 1..Len(calls) :
            /\ calls[k].wrapper = w
            /\ \A j \in (k + 1)..Len(calls) : calls[j].wrapper # w
    ELSE 0

Init ==
    /\ InitLnotab /\ InitStack /\ InitTensor /\ InitCache /\ InitResume
    /\ InitLoop /\ InitCodeGen

SpecLnotab == Init /\ [][NextLnotab]_vars
SpecStack == Init /\ [][NextStack]_vars
SpecTensor == Init /\ [][NextTensor]_vars
SpecCache == Init /\ [][NextCache]_vars
SpecCacheThreads == Init /\ [][NextCacheThreads]_vars
SpecResume == Init /\ [][NextResume]_vars
SpecLoop == Init /\ [][NextLoop]_vars
SpecCodeGen == Init /\ [][NextCodeGen]_vars

====
